---- MODULE Spec2Model ----
(***************************************************************************)
(* Model of scripts/fetch_android_codex_deps.py: resolution of GitHub      *)
(* release assets, verified download, and heuristic extraction of the      *)
(* codex / codex-exec / rg executables into a per-ABI assets directory.    *)
(*                                                                         *)
(* Strings that the code takes apart are sequences of one-character        *)
(* strings; archive member names are sequences of path components; the     *)
(* first bytes of a member are a sequence of byte values.                  *)
(***************************************************************************)
EXTENDS Integers, Sequences, FiniteSets, TLC

VARIABLES
  abis,              \* main: the list of requested ABIs (args.abi or the default)
  codex_termux_tag,  \* main: args.codex_termux_tag
  i,                 \* main: index in abis of the pass being processed
  pc,                \* main: position in the body of the for loop
  asset,             \* main: the ReleaseAsset of the running step (codex_asset / rg_asset)
  got_sha,           \* main: the digest _http_download returned
  tgz,               \* the archive on disk (codex_tgz / rg_tgz): its members in tar order
  tmpdirs,           \* the temporary directories that exist
  out,               \* the destination tree: ABI -> file name -> what was written
  status,            \* "running", "ok" (main returned 0) or "error" (an exception left main)
  pending,           \* the exception in flight, None when there is none
  wrote,             \* file names written by the extraction of the running step
  attempted,         \* <<pass, step>> pairs whose resolution was started
  skipped,           \* <<pass, step>> pairs that printed a skip message
  env_failed,        \* <<pass, what>> pairs: failures the environment or the checks produced
  inp,               \* input of the function applied by a single-function specification
  res                \* its result

vars == <<abis, codex_termux_tag, i, pc, asset, got_sha, tgz, tmpdirs, out, status,
          pending, wrote, attempted, skipped, env_failed, inp, res>>

None == "None"

\* The result of a function that has not been applied yet
Unset == [err |-> "unset", files |-> <<>>]

\* ------------------------------------------------------------------ bounds
MaxMembers == 3
MaxReleases == 2
MaxAbis == 2

\* ------------------------------------------------------- archive members
ElfMagic == <<127, 69, 76, 70>>
NotElf == <<127, 69, 76, 0>>

min_size == 10 * 1024 * 1024
rg_min_size == 100000

NoMember == 0

_is_elf_header(b) == Len(b) >= 4 /\ SubSeq(b, 1, 4) = ElfMagic

\* Path(m.name).name: the last path component
basename(name) == IF name = <<>> THEN "" ELSE name[Len(name)]

RECURSIVE file_indices(_, _)
file_indices(tar, k) ==
  IF k > Len(tar) THEN <<>>
  ELSE (IF tar[k].type = "file" THEN <<k>> ELSE <<>>) \o file_indices(tar, k + 1)

\* _tar_members: the regular-file members, in archive order (as indices)
_tar_members(tar) == file_indices(tar, 1)

\* the loop of _extract_codex_termux_binaries that fills elf_members
elf_members(tar) ==
  SelectSeq(_tar_members(tar),
            LAMBDA k : ~(tar[k].size < min_size) /\ _is_elf_header(tar[k].head))

\* max(ms, key=size): the first member of maximal size
max_by_size(tar, ms) ==
  LET p == CHOOSE j \in 1..Len(ms) :
             /\ \A l \in 1..Len(ms) : tar[ms[l]].size <= tar[ms[j]].size
             /\ \A l \in 1..(j - 1) : tar[ms[l]].size < tar[ms[j]].size
  IN ms[p]

find_by_basename(tar, ems, basenames) ==
  LET matches == SelectSeq(ems, LAMBDA k : basename(tar[k].name) \in basenames)
  IN IF matches = <<>> THEN NoMember ELSE max_by_size(tar, matches)

RECURSIVE sorted_by_size(_, _)
\* sorted(ms, key=size, reverse=True): stable, so equal sizes keep archive order
sorted_by_size(tar, ms) ==
  IF ms = <<>> THEN <<>>
  ELSE LET b == max_by_size(tar, ms)
       IN <<b>> \o sorted_by_size(tar, SelectSeq(ms, LAMBDA k : k # b))

\* next((m for m in sorted_by_size if m.name != codex_member.name), None)
next_other_name(tar, sorted, c) ==
  LET others == SelectSeq(sorted, LAMBDA k : tar[k].name # tar[c].name)
  IN IF others = <<>> THEN NoMember ELSE others[1]

codex_member_largest(tar, ems) == max_by_size(tar, ems)
\* codex_member after the `if not codex_member` fallback
codex_member(tar, ems) ==
  LET named == find_by_basename(tar, ems, {"codex"})
  IN IF named = NoMember THEN max_by_size(tar, ems) ELSE named

\* exec_member after the `if not exec_member` fallback
exec_member(tar, ems, c) ==
  LET named == find_by_basename(tar, ems, {"codex-exec", "codex_exec"})
  IN IF named = NoMember
     THEN next_other_name(tar, sorted_by_size(tar, ems), c)
     ELSE named

cannot_locate_missing_only(tar, e, c) == e = NoMember
\* the guard `if not exec_member or exec_member.name == codex_member.name`
cannot_locate_both(tar, e, c) == e = NoMember \/ tar[e].name = tar[c].name

\* The execute bits of dst once open(dst, 'wb') has run: a file that was there
\* keeps its mode, a file just created has none (0o666 less the umask)
was_executable(dir, f) == f \in DOMAIN dir /\ dir[f].executable

\* _extract_member_to_path: the file dir/f holds the bytes of member k; chmod adds
\* the execute bits, and when stat or chmod raises OSError (chmod_ok is FALSE),
\* which is passed over, the mode stays what the open left
_extract_member_to_path(tar, k, dir, f, chmod_ok) ==
  [member |-> k, name |-> tar[k].name, size |-> tar[k].size, head |-> tar[k].head,
   executable |-> chmod_ok \/ was_executable(dir, f)]

\* _extract_codex_termux_binaries: the exception raised, or the two files written
\* into dir; chmod[f] is the outcome of the chmod of file f, one call per file
_extract_codex_termux_binaries(tar, dir, chmod) ==
  LET ems == elf_members(tar)
  IN IF ems = <<>>
     THEN [err |-> "NoExecutableFound", files |-> <<>>]
     ELSE LET c == codex_member(tar, ems)
              e == exec_member(tar, ems, c)
          IN IF cannot_locate_both(tar, e, c)
             THEN [err |-> "AmbiguousArchive", files |-> <<>>]
             ELSE [err |-> None,
                   files |-> << <<"codex",
                                  _extract_member_to_path(tar, c, dir, "codex",
                                                          chmod["codex"])>>,
                                <<"codex-exec",
                                  _extract_member_to_path(tar, e, dir, "codex-exec",
                                                          chmod["codex-exec"])>> >>]

rg_wanted_any_name(tar, k) == tar[k].size > rg_min_size
\* the name and size test of _extract_ripgrep_rg
rg_wanted(tar, k) == basename(tar[k].name) = "rg" /\ tar[k].size > rg_min_size

\* rg_member: the first regular file passing the name, size and ELF tests
rg_member(tar) ==
  LET hits == SelectSeq(_tar_members(tar),
                        LAMBDA k : rg_wanted(tar, k) /\ _is_elf_header(tar[k].head))
  IN IF hits = <<>> THEN NoMember ELSE hits[1]

\* _extract_ripgrep_rg: the exception raised, or the file written into dir
_extract_ripgrep_rg(tar, dir, chmod) ==
  LET m == rg_member(tar)
  IN IF m = NoMember
     THEN [err |-> "NoExecutableFound", files |-> <<>>]
     ELSE [err |-> None,
           files |-> << <<"rg", _extract_member_to_path(tar, m, dir, "rg",
                                                        chmod["rg"])>> >>]

\* ------------------------------------------------------- archive inputs
CodexNames == { <<"codex">>, <<"bin", "codex">>, <<"codex-exec">>,
                <<"bin", "codex_exec">>, <<"bin", "app">>, <<"lib", "tool">> }

\* Archive entries: regular files of executable size with an ELF header, the same
\* with one attribute off (too small, or not ELF), and entries that are not files.
CodexEntries ==
  [name : CodexNames, size : {min_size, min_size + 1}, head : {ElfMagic}, type : {"file"}]
  \cup [name : {<<"codex">>, <<"codex-exec">>, <<"bin", "app">>}, size : {min_size - 1},
        head : {ElfMagic}, type : {"file"}]
  \cup [name : {<<"codex">>, <<"codex-exec">>}, size : {min_size + 1}, head : {NotElf},
        type : {"file"}]
  \cup [name : {<<"codex">>}, size : {0}, head : {<<>>}, type : {"symlink"}]

RgEntries ==
  [name : {<<"rg">>, <<"ripgrep", "rg">>, <<"ripgrep">>, <<"doc", "rg.1">>},
   size : {rg_min_size, rg_min_size + 1}, head : {ElfMagic, NotElf}, type : {"file"}]
  \cup [name : {<<"rg">>}, size : {0}, head : {<<>>}, type : {"symlink"}]

SeqsUpTo(S, n) == UNION { [1..k -> S] : k \in 0..n }

CodexArchives == SeqsUpTo(CodexEntries, MaxMembers)
RgArchives == SeqsUpTo(RgEntries, MaxMembers)

\* ------------------------------------------------------------- strings
\* The characters str.strip() removes, i.e. those str.isspace() accepts, among the
\* characters a string of this module can hold (code points below 256):
\* 9-13, 28-31, 32, 133 and 160
Whitespace == {"\t", "\n", "", "\f", "\r", "", "", "", "", " ", "", " "}

RECURSIVE lstrip(_)
lstrip(s) == IF s # <<>> /\ s[1] \in Whitespace THEN lstrip(Tail(s)) ELSE s

RECURSIVE rstrip(_)
rstrip(s) ==
  IF s # <<>> /\ s[Len(s)] \in Whitespace THEN rstrip(SubSeq(s, 1, Len(s) - 1)) ELSE s

\* str.strip()
strip(s) == rstrip(lstrip(s))

startswith(s, p) == Len(s) >= Len(p) /\ SubSeq(s, 1, Len(p)) = p

endswith(s, suf) == Len(s) >= Len(suf) /\ SubSeq(s, Len(s) - Len(suf) + 1, Len(s)) = suf

\* s.split(sep, 1)[1] for an s that holds sep
after_first(s, sep) ==
  LET k == CHOOSE j \in 1..Len(s) : s[j] = sep /\ \A l \in 1..(j - 1) : s[l] # sep
  IN SubSeq(s, k + 1, Len(s))

\* The characters str.lower() changes, among the code points below 256, and what
\* it makes of them, place by place
Cased ==
  <<"A", "B", "C", "D", "E", "F", "G", "H", "I", "J", "K", "L", "M", "N",
    "O", "P", "Q", "R", "S", "T", "U", "V", "W", "X", "Y", "Z", "À", "Á",
    "Â", "Ã", "Ä", "Å", "Æ", "Ç", "È", "É", "Ê", "Ë", "Ì", "Í", "Î", "Ï",
    "Ð", "Ñ", "Ò", "Ó", "Ô", "Õ", "Ö", "Ø", "Ù", "Ú", "Û", "Ü", "Ý", "Þ">>

Lowered ==
  <<"a", "b", "c", "d", "e", "f", "g", "h", "i", "j", "k", "l", "m", "n",
    "o", "p", "q", "r", "s", "t", "u", "v", "w", "x", "y", "z", "à", "á",
    "â", "ã", "ä", "å", "æ", "ç", "è", "é", "ê", "ë", "ì", "í", "î", "ï",
    "ð", "ñ", "ò", "ó", "ô", "õ", "ö", "ø", "ù", "ú", "û", "ü", "ý", "þ">>

lower_char(c) ==
  IF \E k \in 1..Len(Cased) : Cased[k] = c
  THEN Lowered[CHOOSE k \in 1..Len(Cased) : Cased[k] = c]
  ELSE c

\* str.lower()
lower(s) == [k \in 1..Len(s) |-> lower_char(s[k])]

\* An Optional[str] is a character sequence, None being the empty one: the code
\* only tests these values for truth (lines 69, 73, 345, 367), where None and ''
\* agree, and _parse_sha256_digest never returns ''.
NoneStr == <<>>

Sha256Prefix == <<"s", "h", "a", "2", "5", "6", ":">>

_parse_sha256_digest(digest) ==
  IF digest = NoneStr THEN NoneStr
  ELSE LET d == strip(digest)
       IN IF startswith(d, Sha256Prefix) THEN strip(after_first(d, ":")) ELSE NoneStr

\* ------------------------------------------------------- release assets
NoAsset == [name |-> <<>>, url |-> <<>>, sha256 |-> NoneStr]

\* ReleaseAsset(name=a['name'], url=a['browser_download_url'],
\*              sha256=_parse_sha256_digest(a.get('digest')))
ReleaseAsset(a) ==
  [name |-> a.name, url |-> a.browser_download_url,
   sha256 |-> _parse_sha256_digest(a.digest)]

DotTgz == <<".", "t", "g", "z">>

\* [a for a in assets if str(a.get('name') or '').endswith('.tgz')]
tgz_assets_of(assets) == SelectSeq(assets, LAMBDA a : endswith(a.name, DotTgz))

\* An HTTP exchange: ok is FALSE when _http_get_bytes raised
Failed(body) == [ok |-> FALSE, body |-> body]
Answer(body) == [ok |-> TRUE, body |-> body]

\* try: rels = _github_releases_json(...)  except Exception: rels = []
rels_or_empty(relsResp) == IF relsResp.ok THEN relsResp.body ELSE <<>>

\* the condition that opens the fallback (line 309)
needs_fallback(tag, rel) == tgz_assets_of(rel.assets) = <<>> /\ tag = "latest"

fallback_skips_drafts_only(r) == r.draft
\* `if r.get('draft') or r.get('prerelease'): continue`
fallback_skips(r) == r.draft \/ r.prerelease

\* Lines 304-338 of main: the archive asset chosen for the codex step, or the
\* failure raised at line 329.
resolve_codex_asset(tag, rel, relsResp) ==
  LET first_try == tgz_assets_of(rel.assets)
      rels == IF needs_fallback(tag, rel) THEN rels_or_empty(relsResp) ELSE <<>>
      adopted == SelectSeq(rels, LAMBDA r : ~fallback_skips(r)
                                            /\ tgz_assets_of(r.assets) # <<>>)
      tgz_assets == IF adopted # <<>> THEN tgz_assets_of(adopted[1].assets)
                    ELSE first_try
  IN IF tgz_assets = <<>>
     THEN [err |-> "AssetNotFound", asset |-> NoAsset]
     ELSE [err |-> None, asset |-> ReleaseAsset(tgz_assets[1])]

\* _github_release_asset after the release was fetched: the first asset with the
\* exact name, or the failure raised at line 107
_github_release_asset(rel, pick_asset_name) ==
  LET hits == SelectSeq(rel.assets, LAMBDA a : a.name = pick_asset_name)
  IN IF hits = <<>>
     THEN [err |-> "AssetNotFound", asset |-> NoAsset]
     ELSE [err |-> None, asset |-> ReleaseAsset(hits[1])]

digest_mismatch_unchecked(expected, got) == FALSE
\* `if asset.sha256 and got_sha.lower() != asset.sha256.lower()`
digest_mismatch(expected, got) == expected # NoneStr /\ lower(got) # lower(expected)

\* ------------------------------------------------------------ main: tables
supported_codex_abis == {"arm64-v8a"}

rg_target_by_abi == [a \in {"arm64-v8a"} |-> "aarch64-unknown-linux-musl"]

\* abis = args.abi or ['arm64-v8a']
abis_of(arg) == IF arg = <<>> THEN <<"arm64-v8a">> ELSE arg

\* args.ripgrep_tag (its default), as the pieces 'v' and '15.0.0'
ripgrep_tag == <<"v", "15.0.0">>

\* rg_version = tag[1:] if tag.startswith('v') else tag
rg_version == IF startswith(ripgrep_tag, <<"v">>) THEN Tail(ripgrep_tag) ELSE ripgrep_tag

\* f'ripgrep-v{rg_version}-{rg_target}.tar.gz'
rg_asset_name(rg_target) == <<"ripgrep-v">> \o rg_version \o <<"-", rg_target, ".tar.gz">>

codex_attempted_always(abi) == TRUE
\* `if abi in supported_codex_abis`
codex_attempted(abi) == abi \in supported_codex_abis

\* `rg_target = rg_target_by_abi.get(abi)` / `if rg_target`
rg_attempted(abi) == abi \in DOMAIN rg_target_by_abi

reraised_integrity_only(e) == e = "IntegrityError"
\* leaving a `with` block: the exception in flight, if any, goes on to leave main
reraised(e) == e # None

kept_on_error(dirs, d, e) == IF e = None THEN dirs \ {d} ELSE dirs
\* TemporaryDirectory.__exit__: the directory is removed, exception or not
cleaned_up(dirs, d, e) == dirs \ {d}

\* ------------------------------------------------------------ main: inputs
AbiNames == {"arm64-v8a", "x86_64"}

Hex_ab == <<"a", "b">>
Hex_cd == <<"c", "d">>

\* What hashlib's hexdigest() can return: lower-case hex
GotDigests == {Hex_ab, Hex_cd}

\* The `digest` field of an asset as the API may send it
RawDigests ==
  { NoneStr,
    Sha256Prefix \o Hex_ab,
    Sha256Prefix \o <<"A", "B">>,
    <<"\t">> \o Sha256Prefix \o <<" ">> \o Hex_cd \o <<"\r", "\n">>,
    Sha256Prefix,
    <<"m", "d", "5", ":">> \o Hex_ab }

Name_c_tgz == <<"c", ".", "t", "g", "z">>
Name_d_tgz == <<"d", ".", "t", "g", "z">>
Name_c_zip == <<"c", ".", "z", "i", "p">>
Name_tgz_sig == <<"c", ".", "t", "g", "z", ".", "s", "i", "g">>

\* An asset of release `tag`: its URL names the release and the file
ApiAsset(tag, name, digest) ==
  [name |-> name, browser_download_url |-> <<tag, name>>, digest |-> digest]

Release(tag, draft, prerelease, assets) ==
  [tag_name |-> tag, draft |-> draft, prerelease |-> prerelease, assets |-> assets]

\* Asset lists of a release `tag`, by shape
AssetLists(tag) ==
  LET tc == ApiAsset(tag, Name_c_tgz, Sha256Prefix \o Hex_ab)
      td == ApiAsset(tag, Name_d_tgz, NoneStr)
      zp == ApiAsset(tag, Name_c_zip, Sha256Prefix \o Hex_cd)
      sg == ApiAsset(tag, Name_tgz_sig, NoneStr)
  IN { <<>>, <<zp>>, <<sg, zp>>, <<tc>>, <<zp, td, tc>>, <<tc, td>> }

\* The release at place k of the releases list (1: the most recent)
ReleasesAt(k) ==
  { Release(<<"list", k>>, d, p, al) : d \in BOOLEAN, p \in BOOLEAN,
                                       al \in AssetLists(<<"list", k>>) }

ReleaseLists ==
  UNION { { rs \in [1..n -> UNION { ReleasesAt(k) : k \in 1..n }] :
              \A k \in 1..n : rs[k] \in ReleasesAt(k) } : n \in 0..MaxReleases }

NoRelease == Release(<<"none">>, FALSE, FALSE, <<>>)

\* Answers to "get one release" and to "list recent releases"
LatestAnswers ==
  {Failed(NoRelease)}
  \cup { Answer(Release(<<"got">>, FALSE, FALSE, al)) : al \in AssetLists(<<"got">>) }

ListAnswers == {Failed(<<>>)} \cup { Answer(rs) : rs \in ReleaseLists }

\* The smaller sets of answers main is run against
MainLatestAnswers ==
  {Failed(NoRelease), Answer(Release(<<"got">>, FALSE, FALSE, <<>>))}
  \cup { Answer(Release(<<"got">>, FALSE, FALSE, <<ApiAsset(<<"got">>, Name_c_tgz, d)>>)) :
           d \in RawDigests }

MainListAnswers ==
  { Failed(<<>>), Answer(<<>>),
    Answer(<< Release(<<"list", 1>>, FALSE, TRUE,
                      <<ApiAsset(<<"list", 1>>, Name_c_tgz, NoneStr)>>),
              Release(<<"list", 2>>, FALSE, FALSE,
                      <<ApiAsset(<<"list", 2>>, Name_d_tgz, Sha256Prefix \o Hex_cd)>>) >>) }

RgAnswers ==
  {Failed(NoRelease), Answer(Release(<<"rg">>, FALSE, FALSE, <<>>))}
  \cup { Answer(Release(<<"rg">>, FALSE, FALSE,
                        << ApiAsset(<<"rg">>, rg_asset_name("x86_64-unknown-linux-musl"),
                                    NoneStr),
                           ApiAsset(<<"rg">>, rg_asset_name(rg_target_by_abi["arm64-v8a"]),
                                    d) >>)) : d \in RawDigests }

Elf(name, size) == [name |-> name, size |-> size, head |-> ElfMagic, type |-> "file"]

\* The archives the codex download may deliver to main
MainCodexArchives ==
  { << Elf(<<"codex">>, min_size), Elf(<<"codex-exec">>, min_size + 1) >>,
    << Elf(<<"bin", "app">>, min_size + 1), Elf(<<"lib", "tool">>, min_size) >>,
    << Elf(<<"codex">>, min_size) >>,
    << Elf(<<"codex">>, min_size - 1) >>,
    <<>> }

\* The archives the ripgrep download may deliver to main
MainRgArchives ==
  { << Elf(<<"ripgrep", "rg">>, rg_min_size + 1) >>,
    << Elf(<<"rg">>, rg_min_size), Elf(<<"rg">>, rg_min_size + 1) >>,
    << Elf(<<"ripgrep">>, rg_min_size + 1) >>,
    <<>> }

NoInput == [tag |-> None, rel |-> NoRelease, rels |-> Answer(<<>>)]

\* ----------------------------------------------------------- main: actions
InitMain ==
  /\ \E arg \in SeqsUpTo(AbiNames, MaxAbis) : abis = abis_of(arg)
  /\ codex_termux_tag \in {"latest", "v1.0"}
  /\ i = 1
  /\ pc = <<"pass", "start">>
  /\ asset = NoAsset /\ got_sha = NoneStr /\ tgz = <<>>
  /\ tmpdirs = {}
  /\ out = [a \in AbiNames |-> <<>>]
  /\ status = "running" /\ pending = None
  /\ wrote = {} /\ attempted = {} /\ skipped = {} /\ env_failed = {}
  /\ inp = NoInput /\ res = Unset

\* An exception leaves main from outside any `with` block
Raise(step, e, what) ==
  /\ status' = "error"
  /\ pending' = e
  /\ pc' = <<step, "raised">>
  /\ env_failed' = env_failed \cup what

\* Lines 294-301 and 350-351: the top of a pass and the codex decision
PassStart ==
  /\ status = "running" /\ pc = <<"pass", "start">>
  /\ IF codex_attempted(abis[i])
     THEN /\ pc' = <<"codex", "resolve">>
          /\ attempted' = attempted \cup {<<i, "codex">>}
          /\ UNCHANGED skipped
     ELSE /\ pc' = <<"rg", "start">>
          /\ skipped' = skipped \cup {<<i, "codex">>}
          /\ UNCHANGED attempted
  /\ UNCHANGED <<abis, codex_termux_tag, i, asset, got_sha, tgz, tmpdirs, out, status,
                 pending, wrote, env_failed, inp, res>>

\* Lines 303-338: the release is fetched, the listing too when the fallback opens,
\* and codex_asset is built or the run raises
CodexResolve(latestAnswers, listAnswers) ==
  /\ status = "running" /\ pc = <<"codex", "resolve">>
  /\ \E relResp \in latestAnswers :
       IF ~relResp.ok
       THEN /\ Raise("codex", "ResolutionError", {<<i, "get-release">>})
            /\ UNCHANGED <<asset, inp>>
       ELSE \E relsResp \in IF needs_fallback(codex_termux_tag, relResp.body)
                            THEN listAnswers ELSE {Answer(<<>>)} :
              LET r == resolve_codex_asset(codex_termux_tag, relResp.body, relsResp)
                  what == (IF relsResp.ok THEN {} ELSE {<<i, "list-releases">>})
                          \cup (IF r.err = None THEN {} ELSE {<<i, "no-asset">>})
              IN /\ inp' = [tag |-> codex_termux_tag, rel |-> relResp.body,
                            rels |-> relsResp]
                 /\ IF r.err # None
                    THEN Raise("codex", r.err, what) /\ UNCHANGED asset
                    ELSE /\ asset' = r.asset
                         /\ pc' = <<"codex", "tmp">>
                         /\ env_failed' = env_failed \cup what
                         /\ UNCHANGED <<status, pending>>
  /\ UNCHANGED <<abis, codex_termux_tag, i, got_sha, tgz, tmpdirs, out, wrote,
                 attempted, skipped, res>>

\* Lines 353-354 and 371-372: the rg decision
RgDecide ==
  /\ status = "running" /\ pc = <<"rg", "start">>
  /\ IF rg_attempted(abis[i])
     THEN /\ pc' = <<"rg", "resolve">>
          /\ attempted' = attempted \cup {<<i, "rg">>}
          /\ UNCHANGED skipped
     ELSE /\ pc' = <<"pass", "end">>
          /\ skipped' = skipped \cup {<<i, "rg">>}
          /\ UNCHANGED attempted
  /\ UNCHANGED <<abis, codex_termux_tag, i, asset, got_sha, tgz, tmpdirs, out, status,
                 pending, wrote, env_failed, inp, res>>

\* Lines 355-360: rg_asset is resolved by its exact name or the run raises
RgResolve ==
  /\ status = "running" /\ pc = <<"rg", "resolve">>
  /\ \E relResp \in RgAnswers :
       IF ~relResp.ok
       THEN /\ Raise("rg", "ResolutionError", {<<i, "get-release">>})
            /\ UNCHANGED asset
       ELSE LET r == _github_release_asset(relResp.body,
                                           rg_asset_name(rg_target_by_abi[abis[i]]))
            IN IF r.err # None
               THEN Raise("rg", r.err, {<<i, "no-asset">>}) /\ UNCHANGED asset
               ELSE /\ asset' = r.asset
                    /\ pc' = <<"rg", "tmp">>
                    /\ UNCHANGED <<status, pending, env_failed>>
  /\ UNCHANGED <<abis, codex_termux_tag, i, got_sha, tgz, tmpdirs, out, wrote,
                 attempted, skipped, inp, res>>

\* Lines 340 and 362: `with tempfile.TemporaryDirectory() as tmpdir`
TmpEnter(step) ==
  /\ status = "running" /\ pc = <<step, "tmp">>
  /\ tmpdirs' = tmpdirs \cup {<<i, step>>}
  /\ pc' = <<step, "download">>
  /\ wrote' = {}
  /\ inp' = NoInput
  /\ UNCHANGED <<abis, codex_termux_tag, i, asset, got_sha, tgz, out, status, pending,
                 attempted, skipped, env_failed, res>>

\* Lines 344 and 366: _http_download raises, or stores the payload and returns
\* its digest
Download(step) ==
  /\ status = "running" /\ pc = <<step, "download">>
  /\ \/ /\ pending' = "DownloadError"
        /\ pc' = <<step, "exit">>
        /\ env_failed' = env_failed \cup {<<i, "download">>}
        /\ UNCHANGED <<got_sha, tgz>>
     \/ /\ got_sha' \in GotDigests
        /\ tgz' \in IF step = "codex" THEN MainCodexArchives ELSE MainRgArchives
        /\ pc' = <<step, "verify">>
        /\ UNCHANGED <<pending, env_failed>>
  /\ UNCHANGED <<abis, codex_termux_tag, i, asset, tmpdirs, out, status, wrote,
                 attempted, skipped, inp, res>>

\* Lines 345-346 and 367-368: the digest check
Verify(step) ==
  /\ status = "running" /\ pc = <<step, "verify">>
  /\ IF digest_mismatch(asset.sha256, got_sha)
     THEN /\ pending' = "IntegrityError"
          /\ pc' = <<step, "exit">>
          /\ env_failed' = env_failed \cup {<<i, "sha256">>}
     ELSE /\ pc' = <<step, "extract">>
          /\ UNCHANGED <<pending, env_failed>>
  /\ UNCHANGED <<abis, codex_termux_tag, i, asset, got_sha, tgz, tmpdirs, out, status,
                 wrote, attempted, skipped, inp, res>>

\* The files a step writes, and what the chmod calls on them may answer: each call
\* is accepted or refused on its own
FilesOf(step) == IF step = "codex" THEN {"codex", "codex-exec"} ELSE {"rg"}

ChmodOutcomes(files) == [files -> BOOLEAN]

\* out_dir after the files of a result were written to it
written_to(dir, files) ==
  LET names == { files[n][1] : n \in 1..Len(files) }
  IN [f \in DOMAIN dir \cup names |->
        IF f \in names
        THEN files[CHOOSE n \in 1..Len(files) : files[n][1] = f][2]
        ELSE dir[f]]

\* Lines 348 and 370: the extraction into out_dir
Extract(step) ==
  /\ status = "running" /\ pc = <<step, "extract">>
  /\ \E chmod \in ChmodOutcomes(FilesOf(step)) :
     LET r == IF step = "codex"
              THEN _extract_codex_termux_binaries(tgz, out[abis[i]], chmod)
              ELSE _extract_ripgrep_rg(tgz, out[abis[i]], chmod)
     IN IF r.err # None
        THEN /\ pending' = r.err
             /\ env_failed' = env_failed \cup {<<i, "extract">>}
             /\ UNCHANGED <<out, wrote>>
        ELSE /\ out' = [out EXCEPT ![abis[i]] = written_to(@, r.files)]
             /\ wrote' = { r.files[n][1] : n \in 1..Len(r.files) }
             /\ UNCHANGED <<pending, env_failed>>
  /\ pc' = <<step, "exit">>
  /\ UNCHANGED <<abis, codex_termux_tag, i, asset, got_sha, tgz, tmpdirs, status,
                 attempted, skipped, inp, res>>

\* The end of the `with` block: the directory goes, and the exception in flight
\* leaves main; without one the locals of the step are dead and the pass goes on
TmpExit(step) ==
  /\ status = "running" /\ pc = <<step, "exit">>
  /\ tmpdirs' = cleaned_up(tmpdirs, <<i, step>>, pending)
  /\ IF reraised(pending)
     THEN /\ status' = "error"
          /\ pc' = <<step, "raised">>
          /\ UNCHANGED <<asset, got_sha, tgz, pending>>
     ELSE /\ pc' = IF step = "codex" THEN <<"rg", "start">> ELSE <<"pass", "end">>
          /\ asset' = NoAsset /\ got_sha' = NoneStr /\ tgz' = <<>>
          /\ pending' = None
          /\ UNCHANGED status
  /\ UNCHANGED <<abis, codex_termux_tag, i, out, wrote, attempted, skipped, env_failed,
                 inp, res>>

\* Lines 374-379: the report of the pass, then the next ABI or `return 0`
PassEnd ==
  /\ status = "running" /\ pc = <<"pass", "end">>
  /\ IF i < Len(abis)
     THEN i' = i + 1 /\ pc' = <<"pass", "start">> /\ UNCHANGED status
     ELSE status' = "ok" /\ pc' = <<"main", "returned">> /\ UNCHANGED i
  /\ wrote' = {}
  /\ UNCHANGED <<abis, codex_termux_tag, asset, got_sha, tgz, tmpdirs, out, pending,
                 attempted, skipped, env_failed, inp, res>>

Next ==
  \/ PassStart
  \/ CodexResolve(MainLatestAnswers, MainListAnswers)
  \/ RgDecide
  \/ RgResolve
  \/ \E step \in {"codex", "rg"} :
       TmpEnter(step) \/ Download(step) \/ Verify(step) \/ Extract(step) \/ TmpExit(step)
  \/ PassEnd

Spec == InitMain /\ [][Next]_vars

\* ------------------------------------------ the codex resolution on its own
\* main up to the resolution of codex_asset, against every answer of the API
InitResolve == InitMain /\ abis = <<"arm64-v8a">>

NextResolve == PassStart \/ CodexResolve(LatestAnswers, ListAnswers)

SpecResolve == InitResolve /\ [][NextResolve]_vars

\* --------------------------------------------------------------- idle main
\* main is not running while one extraction function is applied on its own
MainIdle ==
  /\ abis = <<>> /\ codex_termux_tag = None /\ i = 0 /\ pc = <<"main", "idle">>
  /\ asset = NoAsset /\ got_sha = NoneStr /\ tmpdirs = {}
  /\ out = [a \in AbiNames |-> <<>>]
  /\ status = "idle" /\ pending = None /\ wrote = {} /\ attempted = {}
  /\ skipped = {} /\ env_failed = {}

MainUnchanged ==
  UNCHANGED <<abis, codex_termux_tag, i, pc, asset, got_sha, tmpdirs, out, status,
              pending, wrote, attempted, skipped, env_failed>>

\* ------------------------------- _extract_codex_termux_binaries on its own
\* A file an earlier run left in out_dir
OldFile(x) ==
  [member |-> NoMember, name |-> <<"old">>, size |-> 0, head |-> <<>>, executable |-> x]

\* out_dir before the call: empty, or holding files of an earlier run, with and
\* without execute bits
OutDirs ==
  { <<>>,
    [f \in {"codex", "codex-exec", "rg"} |-> OldFile(f # "codex-exec")] }

InitExtract ==
  /\ MainIdle /\ res = Unset /\ tgz \in CodexArchives
  /\ \E d \in OutDirs : inp = [out_dir |-> d]

ExtractCodex ==
  /\ res = Unset
  /\ \E chmod \in ChmodOutcomes(FilesOf("codex")) :
       res' = _extract_codex_termux_binaries(tgz, inp.out_dir, chmod)
  /\ UNCHANGED <<tgz, inp>> /\ MainUnchanged

SpecExtract == InitExtract /\ [][ExtractCodex]_vars

\* ------------------------------------------ _extract_ripgrep_rg on its own
InitRg ==
  /\ MainIdle /\ res = Unset /\ tgz \in RgArchives
  /\ \E d \in OutDirs : inp = [out_dir |-> d]

ExtractRg ==
  /\ res = Unset
  /\ \E chmod \in ChmodOutcomes(FilesOf("rg")) :
       res' = _extract_ripgrep_rg(tgz, inp.out_dir, chmod)
  /\ UNCHANGED <<tgz, inp>> /\ MainUnchanged

SpecRg == InitRg /\ [][ExtractRg]_vars

\* ---------------------------------------------------- what the claims say
\* The properties below restate the specification's words on the archive itself,
\* without the operators above.
IsQualifying(m) ==
  /\ m.type = "file"
  /\ m.size >= 10 * 1024 * 1024
  /\ Len(m.head) >= 4
  /\ <<m.head[1], m.head[2], m.head[3], m.head[4]>> = <<127, 69, 76, 70>>

Qualifying(tar) == { k \in 1..Len(tar) : IsQualifying(tar[k]) }

LastComponent(m) == m.name[Len(m.name)]

PrimaryNames == {"codex"}
SecondaryNames == {"codex-exec", "codex_exec"}

\* The largest member of a non-empty set of members, the earliest among equals
Largest(tar, S) ==
  CHOOSE k \in S : \A l \in S : tar[l].size < tar[k].size
                                \/ (tar[l].size = tar[k].size /\ l >= k)

\* The archive member a result wrote under a file name (0: no such file)
WrittenMember(r, f) ==
  IF \E n \in 1..Len(r.files) : r.files[n][1] = f
  THEN (r.files[CHOOSE n \in 1..Len(r.files) : r.files[n][1] = f][2]).member
  ELSE 0

NamedPrimaries(tar) == { k \in Qualifying(tar) : LastComponent(tar[k]) \in PrimaryNames }

\* C3: with two or more qualifying members of which exactly one has a basename in
\* the primary-name set, 'codex' is written from that member, whatever its size.
C3_PrimaryIsTheNamedMember ==
  (res # Unset /\ Cardinality(Qualifying(tgz)) >= 2
               /\ Cardinality(NamedPrimaries(tgz)) = 1)
  => (res.err = None /\ WrittenMember(res, "codex") \in NamedPrimaries(tgz))

C3_Witness ==
  /\ res # Unset /\ res.err = None
  /\ Cardinality(Qualifying(tgz)) >= 3
  /\ Cardinality(NamedPrimaries(tgz)) = 1
  /\ \A k \in Qualifying(tgz) \ NamedPrimaries(tgz) :
       tgz[k].size > tgz[WrittenMember(res, "codex")].size

NoNameHints(tar) ==
  \A k \in Qualifying(tar) : LastComponent(tar[k]) \notin PrimaryNames \cup SecondaryNames

\* C4: when no qualifying member carries a primary or secondary basename, 'codex'
\* is the largest qualifying member and 'codex-exec' the second-largest (ties by
\* encounter order).
C4_LargestAndSecondLargest ==
  (res # Unset /\ Cardinality(Qualifying(tgz)) >= 2 /\ NoNameHints(tgz))
  => LET first == Largest(tgz, Qualifying(tgz))
         second == Largest(tgz, Qualifying(tgz) \ {first})
     IN /\ res.err = None
        /\ WrittenMember(res, "codex") = first
        /\ WrittenMember(res, "codex-exec") = second

\* C8: with at least two qualifying members a secondary distinct from the primary
\* is found among the members other than the primary (a secondary basename first,
\* else the largest remaining) and extraction succeeds.
C8_SecondaryAmongTheRest ==
  (res # Unset /\ Cardinality(Qualifying(tgz)) >= 2)
  => /\ res.err = None
     /\ WrittenMember(res, "codex-exec") # WrittenMember(res, "codex")
     /\ LET rest == Qualifying(tgz) \ {WrittenMember(res, "codex")}
            named == { k \in rest : LastComponent(tgz[k]) \in SecondaryNames }
        IN WrittenMember(res, "codex-exec") \in (IF named # {} THEN named ELSE rest)
           /\ (named = {} => WrittenMember(res, "codex-exec") = Largest(tgz, rest))

\* C9: the two files never come from the same member, both members passed the
\* size and ELF filters, and with fewer than two qualifying members extraction
\* fails (no executable: none; ambiguous: one) and writes nothing.
C9_DistinctQualifyingMembers ==
  res # Unset
  => /\ res.err = None
        => /\ WrittenMember(res, "codex") \in Qualifying(tgz)
           /\ WrittenMember(res, "codex-exec") \in Qualifying(tgz)
           /\ WrittenMember(res, "codex") # WrittenMember(res, "codex-exec")
     /\ Cardinality(Qualifying(tgz)) = 0
        => (res.err = "NoExecutableFound" /\ res.files = <<>>)
     /\ Cardinality(Qualifying(tgz)) = 1
        => (res.err = "AmbiguousArchive" /\ res.files = <<>>)

C9_Witness ==
  /\ res # Unset /\ res.err = "AmbiguousArchive" /\ res.files = <<>>
  /\ Len(tgz) >= 2
  /\ Cardinality(Qualifying(tgz)) = 1
  /\ \A k \in Qualifying(tgz) : LastComponent(tgz[k]) \in SecondaryNames

RgHits(tar) ==
  { k \in 1..Len(tar) :
      /\ tar[k].type = "file"
      /\ LastComponent(tar[k]) = "rg"
      /\ tar[k].size > 100000
      /\ Len(tar[k].head) >= 4
      /\ <<tar[k].head[1], tar[k].head[2], tar[k].head[3], tar[k].head[4]>>
           = <<127, 69, 76, 70>> }

\* C5: 'rg' is written from the first regular file that is named rg, larger than
\* 100,000 bytes and ELF, all at once; without such a member extraction fails with
\* no-executable-found and writes nothing.
C5_FirstNamedBigElf ==
  res # Unset
  => IF RgHits(tgz) = {}
     THEN res.err = "NoExecutableFound" /\ res.files = <<>>
     ELSE /\ res.err = None
          /\ Len(res.files) = 1
          /\ WrittenMember(res, "rg") = CHOOSE k \in RgHits(tgz) :
                                          \A l \in RgHits(tgz) : k <= l

C5_Witness ==
  /\ res # Unset /\ res.err = None
  /\ Len(tgz) = 3
  /\ LastComponent(tgz[1]) = "rg" /\ tgz[1].type = "file" /\ tgz[1].size = 100000
  /\ LastComponent(tgz[2]) = "ripgrep" /\ 2 \notin RgHits(tgz) /\ tgz[2].size > 100000
  /\ WrittenMember(res, "rg") = 3


\* ------------------------------------------------------------ main's claims
HasDotTgz(a) ==
  /\ Len(a.name) >= 4
  /\ <<a.name[Len(a.name) - 3], a.name[Len(a.name) - 2], a.name[Len(a.name) - 1],
       a.name[Len(a.name)]>> = <<".", "t", "g", "z">>

TgzPlaces(assets) == { k \in 1..Len(assets) : HasDotTgz(assets[k]) }

Least(S) == CHOOSE k \in S : \A l \in S : k <= l

\* The releases the fallback may adopt, by place in the listing as returned
Adoptable(listing) ==
  { k \in 1..Len(listing) : /\ ~listing[k].draft
                            /\ ~listing[k].prerelease
                            /\ TgzPlaces(listing[k].assets) # {} }

\* The codex resolution ran with a release in hand, and that release has no .tgz
ResolvedWithoutTgz ==
  /\ pc \in {<<"codex", "tmp">>, <<"codex", "raised">>}
  /\ inp.tag # None
  /\ TgzPlaces(inp.rel.assets) = {}

\* C2: when the tag is 'latest' and the latest release has no '.tgz' asset, the
\* asset chosen is the first '.tgz' asset of the first listed release that is
\* neither draft nor prerelease and has one; for a concrete tag, or when no listed
\* release qualifies, the resolution fails with asset-not-found before any download.
C2_FallbackAdoptsFirstPublished ==
  ResolvedWithoutTgz
  => LET listing == IF inp.rels.ok THEN inp.rels.body ELSE <<>>
     IN IF inp.tag = "latest" /\ Adoptable(listing) # {}
        THEN LET r == listing[Least(Adoptable(listing))]
                 a == r.assets[Least(TgzPlaces(r.assets))]
             IN /\ status = "running" /\ pc = <<"codex", "tmp">>
                /\ asset.name = a.name
                /\ asset.url = a.browser_download_url
        ELSE /\ status = "error" /\ pending = "AssetNotFound"
             /\ asset = NoAsset /\ tmpdirs = {} /\ got_sha = <<>>

C2_Witness ==
  /\ ResolvedWithoutTgz /\ inp.tag = "latest" /\ inp.rels.ok
  /\ Len(inp.rels.body) = 2
  /\ inp.rels.body[1].prerelease /\ TgzPlaces(inp.rels.body[1].assets) # {}
  /\ 2 \in Adoptable(inp.rels.body)
  /\ TgzPlaces(inp.rels.body[2].assets) = {2, 3}
  /\ asset.url = inp.rels.body[2].assets[2].browser_download_url

\* Digests are hexadecimal: the letters that have two cases are a to f
SameLetter(a, b) ==
  \/ a = b
  \/ {a, b} \in { {"a", "A"}, {"b", "B"}, {"c", "C"}, {"d", "D"}, {"e", "E"}, {"f", "F"} }

SameIgnoringCase(x, y) ==
  Len(x) = Len(y) /\ \A k \in 1..Len(x) : SameLetter(x[k], y[k])

\* The asset of the running step carries a digest and the download's differs
DigestDiffers ==
  /\ asset.sha256 # <<>>
  /\ got_sha # <<>>
  /\ ~SameIgnoringCase(got_sha, asset.sha256)

\* C1: a download whose digest differs (case-insensitively) from the asset's
\* expected digest is never extracted: nothing of the step is written, the check
\* raises, and the run ends in failure.
C1_MismatchIsNeverExtracted ==
  DigestDiffers
  => /\ wrote = {}
     /\ status # "ok"
     /\ \/ pc[2] = "verify"
        \/ pc[2] = "exit" /\ pending = "IntegrityError"
        \/ pc[2] = "raised" /\ pending = "IntegrityError" /\ status = "error"

C1_Witness ==
  /\ DigestDiffers
  /\ status = "error" /\ pc = <<"rg", "raised">>
  /\ "codex" \in DOMAIN out[abis[i]]
  /\ "rg" \notin DOMAIN out[abis[i]]

\* C6: main returns 0 only when no step failed; once a step has failed (the
\* listing of the fallback included) the run is unwinding toward, or has ended
\* in, a failure.
C6_NoFailureIsDropped ==
  /\ status = "ok" => env_failed = {}
  /\ env_failed # {}
     => \/ status = "error"
        \/ status = "running" /\ pc[2] = "exit" /\ pending # None

C6_Witness ==
  /\ status = "error"
  /\ <<2, "list-releases">> \in env_failed
  /\ pending = "AssetNotFound"

\* The pass has taken its decision on the codex step / on the rg step
DecidedCodex(k) == k < i \/ (k = i /\ pc # <<"pass", "start">>)

DecidedRg(k) ==
  \/ k < i
  \/ k = i /\ \/ pc[1] = "rg" /\ pc[2] # "start"
              \/ pc \in {<<"pass", "end">>, <<"main", "returned">>}

\* C7: an ABI outside the supported set skips the codex step, the rg step is
\* attempted exactly for the mapped ABIs, a skipped step writes no file, a skip
\* never fails the run, and the run returns only after every pass was visited.
C7_SkipsAreHarmless ==
  /\ \A k \in 1..Len(abis) :
       /\ (DecidedCodex(k) /\ abis[k] \notin supported_codex_abis)
          => /\ <<k, "codex">> \in skipped \ attempted
             /\ DOMAIN out[abis[k]] \cap {"codex", "codex-exec"} = {}
       /\ (DecidedRg(k) /\ abis[k] \in DOMAIN rg_target_by_abi)
          => <<k, "rg">> \in attempted
       /\ (DecidedRg(k) /\ abis[k] \notin DOMAIN rg_target_by_abi)
          => /\ <<k, "rg">> \in skipped \ attempted
             /\ "rg" \notin DOMAIN out[abis[k]]
  /\ status = "error" => <<i, pc[1]>> \in attempted
  /\ status = "ok"
     => \A k \in 1..Len(abis) :
          {<<k, "codex">>, <<k, "rg">>} \subseteq attempted \cup skipped

C7_Witness ==
  /\ status = "ok"
  /\ abis = <<"x86_64", "arm64-v8a">>
  /\ {<<1, "codex">>, <<1, "rg">>} \subseteq skipped
  /\ out["x86_64"] = <<>>
  /\ DOMAIN out["arm64-v8a"] = {"codex", "codex-exec", "rg"}

\* C10: a temporary directory exists only while its `with` block runs, and none
\* exists once main has returned or raised.
C10_TemporaryDirectoriesAreRemoved ==
  /\ tmpdirs \subseteq {<<i, pc[1]>>}
  /\ pc[2] \notin {"download", "verify", "extract", "exit"} => tmpdirs = {}
  /\ status # "running" => tmpdirs = {}

C10_Witness ==
  /\ status = "error" /\ i = 2
  /\ pending = "AmbiguousArchive"
  /\ <<2, "extract">> \in env_failed
  /\ tmpdirs = {}

====
